---- MODULE Spec2Model ----
(***************************************************************************)
(* A model of the Repository class of src/version.py: an object store      *)
(* (.gitclone/objects), a staging index (.gitclone/index), branch refs     *)
(* (.gitclone/refs/heads), the HEAD file and the in-memory current_branch  *)
(* field, driven by add, commit, branch, checkout and log.                 *)
(*                                                                         *)
(* Byte strings are TLA+ strings.  A file of the object store is either    *)
(* the raw bytes that shutil.copy put there or the JSON text that          *)
(* json.dump wrote; the model keeps the dumped value and JsonDumps gives   *)
(* its text, so that json.load is the inverse on "json" files and a decode *)
(* error on "raw" ones (no text of Texts is valid JSON).                   *)
(***************************************************************************)
EXTENDS Integers, Sequences, FiniteSets, TLC

VARIABLES objects, index, refs, HEAD, current_branch,
          pc, current_commit, printed, outcome

vars == <<objects, index, refs, HEAD, current_branch,
          pc, current_commit, printed, outcome>>

\* objects         .gitclone/objects: digest -> the file stored under it
\* index           .gitclone/index: the list of staged {path, hash} entries
\* refs            .gitclone/refs/heads: branch name -> content of its ref file
\* HEAD            .gitclone/HEAD, as its "/"-separated segments
\* current_branch  the field self.current_branch
\* pc              "idle" between calls, "log" inside the while loop of log
\* current_commit  the local variable of log
\* printed         the digests the running or last log call printed, or the
\*                 lines the last diff call printed
\* outcome         how the last call ended: "returned", the refusal it printed
\*                 before returning early, or the exception it raised

(* ---------------------------- bounds ----------------------------------- *)

\* longest list of files handed to one add call
MaxBatch == 1
\* number of commits one log call may print before the model stops following it
MaxLogSteps == 3
\* longest list of files handed to one add call when only staging is followed
MaxStagingBatch == 2

(* ---------------------------- inputs ----------------------------------- *)

\* regular files of the working tree
Files == {"a.txt", "b.txt"}
\* paths handed to add: the files and the repository directory itself
Paths == Files \cup {".gitclone"}
\* contents a working-tree file can have (none of them JSON)
Texts == {"first", "second"}
\* commit messages
Messages == {"first", "second"}
\* a working-tree path with no file behind it
Missing == "<missing>"
\* branch names handed to branch and checkout; "" joins to refs/heads/ itself
BranchNames == {"main", "feature", ""}
\* branch names with a path in them: "./main" joins to the ref file of main
PathNames == {"main", "feature", "./main"}
\* what the working tree holds when add reads it
WorkTrees == [Files -> Texts \cup {Missing}]
\* the lists of files handed to add
FileLists == UNION {[1..n -> Paths] : n \in 0..MaxBatch}

\* the lists of files handed to add when only staging is followed: long enough
\* to name one path twice
StagingLists == UNION {[1..n -> Paths] : n \in 0..MaxStagingBatch}

\* the working trees an add of files can tell apart: a path the call does not
\* read is taken as missing
ReadBy(files) ==
    {wt \in WorkTrees :
        \A f \in Files : (\A i \in DOMAIN files : files[i] # f) => wt[f] = Missing}

\* the values os.path.getctime(commit_path) returns; no operation reads a stored
\* timestamp back except to print it, so one value stands for them all
Ctimes == {1}

\* Python's None
None == "<None>"

(* ---------------------------- helpers ---------------------------------- *)

\* hashlib.sha256(bytes).hexdigest(): injective on the byte strings of the model
Sha256(bytes) == "sha256(" \o bytes \o ")"

RECURSIVE FilesJson(_)
\* json.dump of the list of index entries
FilesJson(entries) ==
    IF entries = <<>> THEN ""
    ELSE "{path: " \o Head(entries).path \o ", hash: " \o Head(entries).hash \o "}"
         \o FilesJson(Tail(entries))

\* json.dump(commit_data): the text of a commit record
JsonDumps(commit_data) ==
    "{message: " \o commit_data.message
    \o ", timestamp: " \o ToString(commit_data.timestamp)
    \o ", parent: " \o commit_data.parent
    \o ", files: [" \o FilesJson(commit_data.files) \o "]}"

\* the bytes of a file of the object store
Bytes(obj) == IF obj.kind = "raw" THEN obj.bytes ELSE JsonDumps(obj.value)

\* json.load succeeds on the file: it holds a commit record
IsCommit(obj) == obj.kind = "json"

\* name.split('/') for the branch names of the model: only "./main" has a "/"
Segments(name) == IF name = "./main" THEN <<".", "main">> ELSE <<name>>

\* the entry of refs/heads that os.path.join(refs/heads, name) names: the file
\* system skips the "." segments of the path
RefFile(name) == SelectSeq(Segments(name), LAMBDA segment : segment # ".")[1]

\* os.path.join(refs/heads, name) is a directory: the empty name gives refs/heads/
IsDirectory(name) == RefFile(name) = ""

\* os.path.exists(os.path.join(refs/heads, name))
PathExists(name) == RefFile(name) \in DOMAIN refs \/ IsDirectory(name)

\* the text checkout writes to HEAD, as its "/"-separated segments
HeadText(name) == <<"ref: refs", "heads">> \o Segments(name)

\* _get_current_branch: f.read().split('/')[-1].strip()
get_current_branch(head) == head[Len(head)]

\* _get_last_commit, for a current branch whose ref path is not a directory
get_last_commit ==
    IF RefFile(current_branch) \in DOMAIN refs THEN refs[RefFile(current_branch)] ELSE None

\* Python truthiness of an Optional[str]
Truthy(s) == s # None /\ s # ""

\* _should_ignore: fnmatch of the relative path against the one pattern '.gitclone'
should_ignore(file) == file = ".gitclone"

\* os.path.exists(full_path) for a path handed to add
FileExists(wt, file) == file = ".gitclone" \/ wt[file] # Missing

\* the index left as it is: the old entry of the path is not taken out
RemovePathKeepsAll(idx, file) == idx

\* index = [entry for entry in index if entry['path'] != file]
RemovePath(idx, file) == SelectSeq(idx, LAMBDA entry : entry.path # file)

\* a function with one more (or one overwritten) entry
Put(f, k, v) == [x \in DOMAIN f \cup {k} |-> IF x = k THEN v ELSE f[x]]

RECURSIVE AddLoopStopsAtMissing(_, _, _)
\* the for loop of add with break in place of continue: the first missing or
\* ignored file ends the batch
AddLoopStopsAtMissing(files, wt, st) ==
    IF files = <<>> THEN st
    ELSE LET file == Head(files)
             rest == Tail(files)
         IN  IF ~FileExists(wt, file) THEN st
             ELSE IF should_ignore(file) THEN st
             ELSE LET file_hash == Sha256(wt[file])
                      index_entry == [path |-> file, hash |-> file_hash]
                  IN  AddLoopStopsAtMissing(rest, wt,
                          [objects |-> Put(st.objects, file_hash,
                                           [kind |-> "raw", bytes |-> wt[file]]),
                           index   |-> Append(RemovePath(st.index, file), index_entry)])

RECURSIVE AddLoopReplacesInFront(_, _, _)
\* the for loop of add putting the new entry in front of the index
AddLoopReplacesInFront(files, wt, st) ==
    IF files = <<>> THEN st
    ELSE LET file == Head(files)
             rest == Tail(files)
         IN  IF ~FileExists(wt, file) THEN AddLoopReplacesInFront(rest, wt, st)
             ELSE IF should_ignore(file) THEN AddLoopReplacesInFront(rest, wt, st)
             ELSE LET file_hash == Sha256(wt[file])
                      index_entry == [path |-> file, hash |-> file_hash]
                  IN  AddLoopReplacesInFront(rest, wt,
                          [objects |-> Put(st.objects, file_hash,
                                           [kind |-> "raw", bytes |-> wt[file]]),
                           index   |-> <<index_entry>> \o RemovePath(st.index, file)])

RECURSIVE AddLoop(_, _, _)
\* the for loop of add over files, from the store and index st = [objects, index]
AddLoop(files, wt, st) ==
    IF files = <<>> THEN st
    ELSE LET file == Head(files)
             rest == Tail(files)
         IN  IF ~FileExists(wt, file) THEN AddLoop(rest, wt, st)
             ELSE IF should_ignore(file) THEN AddLoop(rest, wt, st)
             ELSE LET file_hash == Sha256(wt[file])
                      index_entry == [path |-> file, hash |-> file_hash]
                  IN  AddLoop(rest, wt,
                          [objects |-> Put(st.objects, file_hash,
                                           [kind |-> "raw", bytes |-> wt[file]]),
                           index   |-> Append(RemovePath(st.index, file), index_entry)])

\* _get_branch_last_commit: the stripped content of the ref file, None when
\* there is no such file
get_branch_last_commit(branch_name) ==
    IF RefFile(branch_name) \in DOMAIN refs THEN refs[RefFile(branch_name)] ELSE None

\* {file['path']: file['hash'] for file in files}: a later entry of a path wins
FilesDict(files) ==
    [path \in {files[i].path : i \in DOMAIN files} |->
        LET last == CHOOSE i \in DOMAIN files :
                        /\ files[i].path = path
                        /\ \A j \in DOMAIN files : files[j].path = path => j <= i
        IN  files[last].hash]

\* the sequences that list every element of S once
Orderings(S) ==
    {q \in [1..Cardinality(S) -> S] : \A i, j \in DOMAIN q : q[i] = q[j] => i = j}

\* the key lists of both dicts run through one after the other, no set() made
DiffPathsWithoutSet(branch1_files, branch2_files) ==
    {keys1 \o keys2 : keys1 \in Orderings(DOMAIN branch1_files),
                      keys2 \in Orderings(DOMAIN branch2_files)}

\* set(list(branch1_files.keys()) + list(branch2_files.keys())): the orders in
\* which the for loop of diff can meet the paths; a set of str iterates in an
\* order that changes from run to run
DiffPaths(branch1_files, branch2_files) ==
    Orderings(DOMAIN branch1_files \cup DOMAIN branch2_files)

RECURSIVE DiffLoopWithoutRemoved(_, _, _)
\* the for loop of diff without its elif for a path missing from branch2
DiffLoopWithoutRemoved(paths, branch1_files, branch2_files) ==
    IF paths = <<>> THEN <<>>
    ELSE LET path == Head(paths)
             rest == DiffLoopWithoutRemoved(Tail(paths), branch1_files, branch2_files)
         IN  IF path \notin DOMAIN branch1_files
             THEN <<"Added: " \o path>> \o rest
             ELSE IF path \notin DOMAIN branch2_files
             THEN rest
             ELSE IF branch1_files[path] # branch2_files[path]
             THEN <<"Modified: " \o path>> \o rest
             ELSE rest

RECURSIVE DiffLoop(_, _, _)
\* the for loop of diff over paths: the lines it prints
DiffLoop(paths, branch1_files, branch2_files) ==
    IF paths = <<>> THEN <<>>
    ELSE LET path == Head(paths)
             rest == DiffLoop(Tail(paths), branch1_files, branch2_files)
         IN  IF path \notin DOMAIN branch1_files
             THEN <<"Added: " \o path>> \o rest
             ELSE IF path \notin DOMAIN branch2_files
             THEN <<"Removed: " \o path>> \o rest
             ELSE IF branch1_files[path] # branch2_files[path]
             THEN <<"Modified: " \o path>> \o rest
             ELSE rest

(* ---------------------------- state ------------------------------------ *)

\* __init__ and _initialize_repo on a directory without .gitclone
Init ==
    /\ objects = <<>>
    /\ index = <<>>
    /\ refs = [b \in {"main"} |-> ""]
    /\ HEAD = HeadText("main")
    /\ current_branch = get_current_branch(HeadText("main"))
    /\ pc = "idle"
    /\ current_commit = None
    /\ printed = <<>>
    /\ outcome = "returned"

(* ---------------------------- operations ------------------------------- *)

\* add(files), reading the working tree wt
Add(files, wt) ==
    /\ pc = "idle"
    /\ LET st == AddLoop(files, wt, [objects |-> objects, index |-> index])
       IN  /\ objects' = st.objects
           /\ index' = st.index
    /\ outcome' = "returned"
    /\ printed' = <<>>
    /\ UNCHANGED <<refs, HEAD, current_branch, pc, current_commit>>

\* commit(message) without the early return on an empty index
CommitWithoutEmptyCheck(message, timestamp) ==
    /\ pc = "idle"
    /\ printed' = <<>>
    /\ LET commit_hash == Sha256(message)
       IN  IF commit_hash \notin DOMAIN objects
           THEN /\ outcome' = "AttributeError"
                /\ UNCHANGED <<objects, index, refs>>
           ELSE IF IsDirectory(current_branch)
           THEN /\ outcome' = "IsADirectoryError"
                /\ UNCHANGED <<objects, index, refs>>
           ELSE LET commit_data == [message   |-> message,
                                    timestamp |-> timestamp,
                                    parent    |-> get_last_commit,
                                    files     |-> index]
                IN  /\ objects' = Put(objects, commit_hash,
                                      [kind |-> "json", value |-> commit_data])
                    /\ refs' = Put(refs, RefFile(current_branch), commit_hash)
                    /\ index' = <<>>
                    /\ outcome' = "returned"
    /\ UNCHANGED <<HEAD, current_branch, pc, current_commit>>

\* commit(message) with a timestamp fallback that works: no failure when no
\* object is stored under the digest of the message
CommitWithClock(message, timestamp) ==
    /\ pc = "idle"
    /\ printed' = <<>>
    /\ LET commit_hash == Sha256(message)
       IN  IF index = <<>>
           THEN /\ outcome' = "No changes to commit"
                /\ UNCHANGED <<objects, index, refs>>
           ELSE IF IsDirectory(current_branch)
           THEN /\ outcome' = "IsADirectoryError"
                /\ UNCHANGED <<objects, index, refs>>
           ELSE LET commit_data == [message   |-> message,
                                    timestamp |-> timestamp,
                                    parent    |-> get_last_commit,
                                    files     |-> index]
                IN  /\ objects' = Put(objects, commit_hash,
                                      [kind |-> "json", value |-> commit_data])
                    /\ refs' = Put(refs, RefFile(current_branch), commit_hash)
                    /\ index' = <<>>
                    /\ outcome' = "returned"
    /\ UNCHANGED <<HEAD, current_branch, pc, current_commit>>

\* commit(message); timestamp is what os.path.getctime(commit_path) returns
Commit(message, timestamp) ==
    /\ pc = "idle"
    /\ printed' = <<>>
    /\ LET commit_hash == Sha256(message)
       IN  IF index = <<>>
           THEN /\ outcome' = "No changes to commit"
                /\ UNCHANGED <<objects, index, refs>>
           ELSE IF commit_hash \notin DOMAIN objects
           THEN \* os.time() does not exist
                /\ outcome' = "AttributeError"
                /\ UNCHANGED <<objects, index, refs>>
           ELSE IF IsDirectory(current_branch)
           THEN \* _get_last_commit opens a directory
                /\ outcome' = "IsADirectoryError"
                /\ UNCHANGED <<objects, index, refs>>
           ELSE LET commit_data == [message   |-> message,
                                    timestamp |-> timestamp,
                                    parent    |-> get_last_commit,
                                    files     |-> index]
                IN  /\ objects' = Put(objects, commit_hash,
                                      [kind |-> "json", value |-> commit_data])
                    /\ refs' = Put(refs, RefFile(current_branch), commit_hash)
                    /\ index' = <<>>
                    /\ outcome' = "returned"
    /\ UNCHANGED <<HEAD, current_branch, pc, current_commit>>

\* branch(branch_name)
Branch(branch_name) ==
    /\ pc = "idle"
    /\ printed' = <<>>
    /\ IF IsDirectory(current_branch) \/ IsDirectory(branch_name)
       THEN \* _get_last_commit, or open(branch_path, 'w'), opens a directory
            /\ outcome' = "IsADirectoryError"
            /\ UNCHANGED refs
       ELSE /\ refs' = Put(refs, RefFile(branch_name),
                           IF Truthy(get_last_commit) THEN get_last_commit ELSE "")
            /\ outcome' = "returned"
    /\ UNCHANGED <<objects, index, HEAD, current_branch, pc, current_commit>>

\* checkout(branch_name) that also empties the staging area
CheckoutClearsIndex(branch_name) ==
    /\ pc = "idle"
    /\ printed' = <<>>
    /\ IF ~PathExists(branch_name)
       THEN /\ outcome' = "does not exist"
            /\ UNCHANGED <<HEAD, current_branch, index>>
       ELSE /\ HEAD' = HeadText(branch_name)
            /\ current_branch' = branch_name
            /\ index' = <<>>
            /\ outcome' = "returned"
    /\ UNCHANGED <<objects, refs, pc, current_commit>>

\* checkout(branch_name)
Checkout(branch_name) ==
    /\ pc = "idle"
    /\ printed' = <<>>
    /\ IF ~PathExists(branch_name)
       THEN /\ outcome' = "does not exist"
            /\ UNCHANGED <<HEAD, current_branch>>
       ELSE /\ HEAD' = HeadText(branch_name)
            /\ current_branch' = branch_name
            /\ outcome' = "returned"
    /\ UNCHANGED <<objects, index, refs, pc, current_commit>>

\* log(): the call, up to the first test of the while loop
Log ==
    /\ pc = "idle"
    /\ printed' = <<>>
    /\ IF IsDirectory(current_branch)
       THEN /\ outcome' = "IsADirectoryError"
            /\ UNCHANGED <<pc, current_commit>>
       ELSE /\ current_commit' = get_last_commit
            /\ pc' = "log"
            /\ outcome' = "running"
    /\ UNCHANGED <<objects, index, refs, HEAD, current_branch>>

\* log(): the test of the while loop and one pass through its body
LogIter ==
    /\ pc = "log"
    /\ IF ~Truthy(current_commit)
       THEN \* the loop ends
            /\ pc' = "idle"
            /\ outcome' = "returned"
            /\ current_commit' = None
            /\ UNCHANGED printed
       ELSE IF current_commit \notin DOMAIN objects
       THEN \* except FileNotFoundError: break
            /\ pc' = "idle"
            /\ outcome' = "returned"
            /\ current_commit' = None
            /\ UNCHANGED printed
       ELSE IF ~IsCommit(objects[current_commit])
       THEN \* json.load raises on a file that is not JSON
            /\ pc' = "idle"
            /\ outcome' = "JSONDecodeError"
            /\ current_commit' = None
            /\ UNCHANGED printed
       ELSE /\ Len(printed) < MaxLogSteps
            /\ printed' = Append(printed, current_commit)
            /\ current_commit' = objects[current_commit].value.parent
            /\ UNCHANGED <<pc, outcome>>
    /\ UNCHANGED <<objects, index, refs, HEAD, current_branch>>

\* diff(branch1, branch2)
Diff(branch1, branch2) ==
    /\ pc = "idle"
    /\ IF IsDirectory(branch1) \/ IsDirectory(branch2)
       THEN /\ outcome' = "IsADirectoryError"
            /\ printed' = <<>>
       ELSE LET branch1_commit == get_branch_last_commit(branch1)
                branch2_commit == get_branch_last_commit(branch2)
            IN  IF ~Truthy(branch1_commit) \/ ~Truthy(branch2_commit)
                THEN /\ outcome' = "One or both branches have no commits"
                     /\ printed' = <<>>
                ELSE IF branch1_commit \notin DOMAIN objects
                THEN /\ outcome' = "FileNotFoundError"
                     /\ printed' = <<>>
                ELSE IF ~IsCommit(objects[branch1_commit])
                THEN /\ outcome' = "JSONDecodeError"
                     /\ printed' = <<>>
                ELSE IF branch2_commit \notin DOMAIN objects
                THEN /\ outcome' = "FileNotFoundError"
                     /\ printed' = <<>>
                ELSE IF ~IsCommit(objects[branch2_commit])
                THEN /\ outcome' = "JSONDecodeError"
                     /\ printed' = <<>>
                ELSE LET branch1_files == FilesDict(objects[branch1_commit].value.files)
                         branch2_files == FilesDict(objects[branch2_commit].value.files)
                     IN  /\ \E paths \in DiffPaths(branch1_files, branch2_files) :
                               printed' =
                                   <<"Diff between " \o branch1 \o " and " \o branch2 \o ":">>
                                   \o DiffLoop(paths, branch1_files, branch2_files)
                         /\ outcome' = "returned"
    /\ UNCHANGED <<objects, index, refs, HEAD, current_branch, pc, current_commit>>

\* an object file deleted by hand between two calls: what the handler of
\* FileNotFoundError in log provides for
RemoveObject(digest) ==
    /\ pc = "idle"
    /\ digest \in DOMAIN objects
    /\ objects' = [d \in DOMAIN objects \ {digest} |-> objects[d]]
    /\ UNCHANGED <<index, refs, HEAD, current_branch, pc, current_commit,
                   printed, outcome>>

Next ==
    \/ \E files \in FileLists : \E wt \in ReadBy(files) : Add(files, wt)
    \/ \E message \in Messages, timestamp \in Ctimes : Commit(message, timestamp)
    \/ \E branch_name \in BranchNames : Branch(branch_name)
    \/ \E branch_name \in BranchNames : Checkout(branch_name)
    \/ Log
    \/ LogIter

Spec == Init /\ [][Next]_vars

\* the calls of a run whose branch names may hold a path
NextNames ==
    \/ \E files \in FileLists : \E wt \in ReadBy(files) : Add(files, wt)
    \/ \E message \in Messages, timestamp \in Ctimes : Commit(message, timestamp)
    \/ \E branch_name \in PathNames : Branch(branch_name)
    \/ \E branch_name \in PathNames : Checkout(branch_name)

SpecNames == Init /\ [][NextNames]_vars

\* the calls of a run that stages batches of files between commits, branch
\* creations and checkouts; commit reads the index only to copy and clear it,
\* so one message stands for them all
NextStaging ==
    \/ \E files \in StagingLists : \E wt \in ReadBy(files) : Add(files, wt)
    \/ \E message \in {"first"}, timestamp \in Ctimes : Commit(message, timestamp)
    \/ Branch("feature")
    \/ \E branch_name \in {"main", "feature"} : Checkout(branch_name)

SpecStaging == Init /\ [][NextStaging]_vars

\* the calls of a run that builds commits on two branches, one file staged at
\* a time, and compares the branches
NextDiff ==
    \/ \E file \in Files : \E wt \in ReadBy(<<file>>) : Add(<<file>>, wt)
    \/ \E message \in Messages, timestamp \in Ctimes : Commit(message, timestamp)
    \/ Branch("feature")
    \/ \E branch_name \in {"main", "feature"} : Checkout(branch_name)
    \/ \E branch1, branch2 \in {"main", "feature"} : Diff(branch1, branch2)

SpecDiff == Init /\ [][NextDiff]_vars

\* the calls of a run on one branch whose object files can be deleted by hand
NextCorrupt ==
    \/ \E file \in Files : \E wt \in ReadBy(<<file>>) : Add(<<file>>, wt)
    \/ \E message \in Messages, timestamp \in Ctimes : Commit(message, timestamp)
    \/ \E digest \in {Sha256(text) : text \in Texts} : RemoveObject(digest)
    \/ Log
    \/ LogIter

SpecCorrupt == Init /\ [][NextCorrupt]_vars

(* ---------------------------- properties ------------------------------- *)

\* the digests under which the object store holds a commit record
CommitDigests == {d \in DOMAIN objects : IsCommit(objects[d])}

RECURSIVE Ancestors(_, _)
\* the digests met by following at most n parent links from digest d
Ancestors(d, n) ==
    IF n = 0 \/ d \notin CommitDigests THEN {}
    ELSE LET parent == objects[d].value.parent
         IN  IF Truthy(parent) THEN {parent} \cup Ancestors(parent, n - 1) ELSE {}

\* C1: the parent of every stored commit, if present, is the digest of a stored
\* commit record, and following parent links from a stored commit never leads
\* back to that commit.
C1_ParentsResolveAndAcyclic ==
    \A d \in CommitDigests :
        /\ Truthy(objects[d].value.parent) => objects[d].value.parent \in CommitDigests
        /\ d \notin Ancestors(d, Cardinality(DOMAIN objects))

\* C2: the log walk from the current branch's tip never visits the same commit
\* digest twice (so it ends after at most one visit per stored commit).
C2_LogNeverRevisits ==
    \A i, j \in DOMAIN printed : i # j => printed[i] # printed[j]

\* C3: every object of the object store is stored under the digest of its own
\* stored content.
C3_KeysAreContentDigests ==
    \A d \in DOMAIN objects : Sha256(Bytes(objects[d])) = d

\* C4: the tip of every branch is empty or the digest of a stored object that
\* is a commit record.
C4_TipsResolveToCommits ==
    \A b \in DOMAIN refs : refs[b] = "" \/ refs[b] \in CommitDigests

\* C5: once a commit record is stored under a digest, the message, parent and
\* files stored under that digest never change.
C5_CommitsImmutable ==
    [][\A d \in CommitDigests :
          /\ d \in DOMAIN objects'
          /\ IsCommit(objects'[d])
          /\ objects'[d].value.message = objects[d].value.message
          /\ objects'[d].value.parent = objects[d].value.parent
          /\ objects'[d].value.files = objects[d].value.files]_vars

\* C6: a commit called with a non-empty index ends with the current branch's
\* tip resolving to a commit record whose files are the entries staged at the
\* call, and with the index empty.
C6_CommitStoresStagedEntries ==
    [][\A message \in Messages, timestamp \in Ctimes :
          (Commit(message, timestamp) /\ index # <<>>) =>
              /\ index' = <<>>
              /\ current_branch \in DOMAIN refs'
              /\ refs'[current_branch] \in DOMAIN objects'
              /\ IsCommit(objects'[refs'[current_branch]])
              /\ objects'[refs'[current_branch]].value.files = index]_vars

\* C7: a successful commit gives the new commit the current branch's old tip as
\* parent and leaves every other branch with the same tip digest, whose commit
\* record is the same as before.
C7_CommitMovesOnlyCurrentBranch ==
    [][\A message \in Messages, timestamp \in Ctimes :
          (Commit(message, timestamp) /\ outcome' = "returned") =>
              /\ objects'[refs'[current_branch]].value.parent = refs[current_branch]
              /\ \A b \in DOMAIN refs \ {current_branch} :
                    /\ refs'[b] = refs[b]
                    /\ refs[b] \in CommitDigests => objects'[refs[b]] = objects[refs[b]]]_vars

\* C8: HEAD names a branch that has a ref entry.
C8_HeadNamesARef ==
    get_current_branch(HEAD) \in DOMAIN refs

\* C9: branch(name) with a name that already has a ref entry leaves that
\* branch's tip, every other ref and HEAD unchanged.
C9_BranchKeepsExistingRef ==
    [][\A branch_name \in BranchNames :
          (Branch(branch_name) /\ branch_name \in DOMAIN refs) =>
              (refs' = refs /\ HEAD' = HEAD)]_vars

\* C10: commit called with an empty index reports that there is nothing to
\* commit and leaves every branch tip, HEAD, the index and the object store
\* unchanged.
C10_EmptyCommitChangesNothing ==
    [][\A message \in Messages, timestamp \in Ctimes :
          (Commit(message, timestamp) /\ index = <<>>) =>
              /\ outcome' = "No changes to commit"
              /\ UNCHANGED <<refs, HEAD, current_branch, index, objects>>]_vars

\* C10 happens: a commit on an empty index was refused in a repository that
\* already has a commit and a blob to commit under
C10_Witness ==
    /\ outcome = "No changes to commit"
    /\ index = <<>>
    /\ \E b \in DOMAIN refs : refs[b] # ""
    /\ \E message \in Messages : Sha256(message) \in DOMAIN objects

\* C11: checkout(name) with a name that has no ref entry is refused and leaves
\* HEAD, current_branch and every ref unchanged; checkout of a name with a ref
\* entry sets HEAD to that name and changes no branch tip.
C11_CheckoutUnknownRefused ==
    [][\A branch_name \in BranchNames :
          Checkout(branch_name) =>
              IF branch_name \notin DOMAIN refs
              THEN /\ outcome' = "does not exist"
                   /\ UNCHANGED <<HEAD, current_branch, refs>>
              ELSE /\ get_current_branch(HEAD') = branch_name
                   /\ refs' = refs]_vars

C19_FieldMatchesHead ==
    current_branch = get_current_branch(HEAD)

\* the entries of idx for one path
EntriesOf(idx, file) == SelectSeq(idx, LAMBDA entry : entry.path = file)

\* C12: in every reachable state no two index entries share a path.
C12_OneEntryPerPath ==
    \A i, j \in DOMAIN index : index[i].path = index[j].path => i = j

\* a full index: every file staged, after a batch or after several calls
C12_Witness ==
    /\ Len(index) = Cardinality(Files)
    /\ objects # <<>>
    /\ outcome = "returned"

\* the files of a batch that add stages: they exist and are not ignored
Staged(files, wt) ==
    {files[i] : i \in {k \in DOMAIN files :
                          FileExists(wt, files[k]) /\ ~should_ignore(files[k])}}

\* C13: a missing or ignored file does not abort a batch: from every reachable
\* state and for every batch, each file of the batch that exists and is not
\* ignored ends with an index entry holding the digest of its content and a
\* blob under that digest, and the entries of a missing or ignored path are
\* what they were.
C13_BatchSurvivesBadFiles ==
    \A files \in StagingLists : \A wt \in ReadBy(files) :
        LET st == AddLoop(files, wt, [objects |-> objects, index |-> index])
        IN  \A i \in DOMAIN files :
                LET file == files[i]
                IN  IF file \in Staged(files, wt)
                    THEN /\ EntriesOf(st.index, file) =
                                <<[path |-> file, hash |-> Sha256(wt[file])]>>
                         /\ Sha256(wt[file]) \in DOMAIN st.objects
                         /\ st.objects[Sha256(wt[file])] =
                                [kind |-> "raw", bytes |-> wt[file]]
                    ELSE EntriesOf(st.index, file) = EntriesOf(index, file)

\* one file staged with its blob stored while the other has no entry, as after
\* a batch naming a missing file and an existing one
C13_Witness ==
    /\ outcome = "returned"
    /\ \E file \in Files, text \in Texts :
          /\ index = <<[path |-> file, hash |-> Sha256(text)]>>
          /\ Sha256(text) \in DOMAIN objects
          /\ objects[Sha256(text)] = [kind |-> "raw", bytes |-> text]

DigestsOf(files, path) == {files[i].hash : i \in {k \in DOMAIN files : files[k].path = path}}

\* how many of lines are line
Count(lines, line) == Cardinality({i \in DOMAIN lines : lines[i] = line})

\* C15: a diff of two commits A and B reports every path exactly as follows:
\* Added once when the path is only in B, Removed once when it is only in A,
\* Modified once when it is in both with different digests, and nothing
\* otherwise; it prints no other line after its heading.
C15_DiffClassifiesEachPath ==
    [][\A branch1, branch2 \in {"main", "feature"} :
          (outcome' = "returned" /\ printed' # <<>> /\ Diff(branch1, branch2)) =>
              LET A == objects[refs[branch1]].value.files
                  B == objects[refs[branch2]].value.files
                  lines == Tail(printed')
                  expected(path) ==
                      IF DigestsOf(A, path) = {} /\ DigestsOf(B, path) # {}
                      THEN "Added: " \o path
                      ELSE IF DigestsOf(A, path) # {} /\ DigestsOf(B, path) = {}
                      THEN "Removed: " \o path
                      ELSE IF DigestsOf(A, path) # DigestsOf(B, path)
                      THEN "Modified: " \o path
                      ELSE None
              IN  /\ \A path \in Paths :
                        \A line \in {"Added: " \o path, "Removed: " \o path,
                                      "Modified: " \o path} :
                            Count(lines, line) = IF line = expected(path) THEN 1 ELSE 0
                  /\ \A i \in DOMAIN lines :
                        \E path \in Paths :
                            lines[i] \in {"Added: " \o path, "Removed: " \o path,
                                          "Modified: " \o path}]_vars

\* a diff of two commits printed a Modified line and an Added or Removed line
C15_Witness ==
    /\ outcome = "returned"
    /\ Len(printed) = 3
    /\ printed[1] = "Diff between main and feature:"
    /\ \E path \in Files : "Modified: " \o path \in {printed[2], printed[3]}
    /\ \E path \in Files :
          {"Added: " \o path, "Removed: " \o path} \cap {printed[2], printed[3]} # {}

\* the paths that lines report under the heading kind
Reported(lines, kind) ==
    {path \in Paths : \E i \in DOMAIN lines : lines[i] = kind \o ": " \o path}

\* C16: for any two commits A and B of the store, the paths diff(A, B) reports
\* as Added are those diff(B, A) reports as Removed, its Removed paths are
\* those diff(B, A) reports as Added, and both report the same Modified paths.
C16_DiffSymmetric ==
    \A A, B \in CommitDigests :
        LET a_files == FilesDict(objects[A].value.files)
            b_files == FilesDict(objects[B].value.files)
        IN  \A ab \in DiffPaths(a_files, b_files), ba \in DiffPaths(b_files, a_files) :
                LET forth == DiffLoop(ab, a_files, b_files)
                    back  == DiffLoop(ba, b_files, a_files)
                IN  /\ Reported(forth, "Added") = Reported(back, "Removed")
                    /\ Reported(forth, "Removed") = Reported(back, "Added")
                    /\ Reported(forth, "Modified") = Reported(back, "Modified")

\* a diff of the two branches' commits printed a Removed line, so the
\* opposite direction has a path to report as Added
C16_Witness ==
    /\ outcome = "returned"
    /\ Len(printed) >= 2
    /\ printed[1] = "Diff between main and feature:"
    /\ \E path \in Files, i \in DOMAIN printed : printed[i] = "Removed: " \o path
    /\ refs["main"] \in CommitDigests
    /\ refs["feature"] \in CommitDigests
    /\ refs["main"] # refs["feature"]

\* C17: when log reaches a digest for which the object store holds no commit
\* record (no object, or an object that is not a commit record), the call ends
\* with an error and not as a normal completion.
C17_LogFailsOnBrokenHistory ==
    [][(LogIter /\ Truthy(current_commit) /\ current_commit \notin CommitDigests) =>
          outcome' \in {"FileNotFoundError", "JSONDecodeError"}]_vars

====
